---- MODULE Spec2Model ----
(***************************************************************************)
(* A model of dash_share (src/dash_share/share.py): the layout-tree        *)
(* rewriter update_component_state, the state codec DashShare.encode, the  *)
(* file persistence of FileShare, and the lock / unlock protocol of        *)
(* DashShare.register_callbacks.                                           *)
(*                                                                         *)
(* JSON values (what Dash hands to a callback as State, and what json.dump *)
(* / json.load write and read) are tagged pairs <<tag, payload>>:          *)
(*   <<"str", s>>    s a sequence of tokens; a token is an indivisible run *)
(*                   of characters, and "-" and "_" are tokens of their own *)
(*   <<"none", <<>>>>, <<"bool", b>>, <<"num", n>>                         *)
(*   <<"list", seq>>  and  <<"dict", f>>  with f a function on key names.  *)
(* A Python exception leaving a function is the value <<"raise", <<e>>>>.  *)
(***************************************************************************)
EXTENDS Integers, Sequences, FiniteSets, TLC

VARIABLES
    locked,             \* DashShare.locked                       (share.py:137)
    children,           \* the children of the layout_id container, as the
                        \* browser holds them: the props that change
                        \* (LayoutOf gives the tree)              (share.py:224)
    store,              \* the files ./share/<hash>.json          (share.py:416)
    update_components,  \* FileShare.update_components            (share.py:381)
    on_server,          \* the environment variable ON_SERVER     (share.py:351)
    interval_changed,   \* n_intervals was written by a callback and the
                        \* callback it triggers has not run yet   (share.py:287)
    window,             \* history: "open" from a truthy reload trigger on,
                        \* "interrupted" once a falsy one follows it,
                        \* "closed" once the timer fired while locked,
                        \* "none" otherwise                       (share.py:277)
    last,               \* history: the last callback that ran, its input,
                        \* whether the wrapped function ran, what it
                        \* returned, and whether save found the file
    arg_layout,         \* update_component_state's layout        (share.py:18)
    arg_kwargs,         \* update_component_state's kwargs        (share.py:20)
    updated             \* what update_component_state returns    (share.py:94)

app_vars == <<locked, children, store, update_components, on_server,
              interval_changed, window, last>>
call_vars == <<arg_layout, arg_kwargs, updated>>
vars == <<app_vars, call_vars>>

-----------------------------------------------------------------------------
(* JSON values *)

Str(s) == <<"str", s>>
None == <<"none", <<>>>>
Bool(b) == <<"bool", b>>
Num(n) == <<"num", n>>
List(s) == <<"list", s>>
Dict(f) == <<"dict", f>>
Raise(e) == <<"raise", <<e>>>>
no_update == <<"no_update", <<>>>>
Absent == <<"absent", <<>>>>       \* a key that a dict does not have

Tag(v) == v[1]
Val(v) == v[2]
IsRaise(v) == Tag(v) = "raise"
Keys(d) == DOMAIN Val(d)
Get(d, k) == Val(d)[k]
Put(d, k, v) == Dict((k :> v) @@ Val(d))
\* dict.update(other): keys of other overwrite, the others stay
Update(d, other) == Dict(other @@ Val(d))
EmptyDict == Dict(<<>>)

\* Python truthiness of a JSON value
Truthy(v) ==
    CASE Tag(v) = "none" -> FALSE
      [] Tag(v) = "bool" -> Val(v)
      [] Tag(v) = "num" -> Val(v) # 0
      [] Tag(v) = "str" -> Len(Val(v)) > 0
      [] Tag(v) = "list" -> Len(Val(v)) > 0
      [] Tag(v) = "dict" -> DOMAIN Val(v) # {}
      [] OTHER -> TRUE

\* str.replace("-", "_") on a token sequence
ReplaceDash(s) == [i \in 1..Len(s) |-> IF s[i] = "-" THEN "_" ELSE s[i]]

-----------------------------------------------------------------------------
(* update_component_state(layout, None, **kwargs).  kwargs is a function   *)
(* from component ids (token sequences) to patches; a patch is a function  *)
(* from prop names to JSON values.  The code mutates in place and returns  *)
(* the tree; the model is the returned tree.                               *)

RECURSIVE update_component_state(_, _)

\* lines 56-59, and 84-92: the id is normalised, looked up among the keys
\* of kwargs, and the patch is merged into the dict that carries the id
MergeOwnPatch(d, id, kwargs) ==
    IF Tag(id) # "str" THEN Raise("AttributeError")
    ELSE IF ReplaceDash(Val(id)) \in DOMAIN kwargs
         THEN Update(d, kwargs[ReplaceDash(Val(id))])
         ELSE d

\* d[key] = <the call's result>, unless the call raised
Assign(d, key, r) == IF IsRaise(r) THEN r ELSE Put(d, key, r)

\* lines 50-52
UpdateChildren(layout, kwargs) ==
    IF "children" \in Keys(layout)
    THEN Assign(layout, "children",
                update_component_state(Get(layout, "children"), kwargs))
    ELSE layout

\* lines 53-54; d is the dict after lines 50-52, or what they raised
UpdateProps(d, kwargs) ==
    IF IsRaise(d) THEN d
    ELSE IF "props" \in Keys(d)
    THEN Assign(d, "props", update_component_state(Get(d, "props"), kwargs))
    ELSE d

\* lines 55-59; d is the dict after lines 50-54, or what they raised
UpdateOwn(d, kwargs) ==
    IF IsRaise(d) THEN d
    ELSE IF "id" \in Keys(d) THEN MergeOwnPatch(d, Get(d, "id"), kwargs)
    ELSE d

\* lines 49-61: layout is a dict
UpdateDict(layout, kwargs) ==
    UpdateOwn(UpdateProps(UpdateChildren(layout, kwargs), kwargs), kwargs)

\* lines 69-79: props["children"] is a non-empty dict
UpdateDictChild(ch, kwargs) ==
    IF "props" \in Keys(ch)
    THEN IF Tag(Get(ch, "props")) \in {"none", "num", "bool"}
         THEN Raise("TypeError")       \* "children" in <not a container>
         ELSE Assign(ch, "props",
                     update_component_state(Get(ch, "props"), kwargs))
    ELSE IF "children" \in Keys(ch)
    THEN Assign(ch, "children",
                update_component_state(Get(ch, "children"), kwargs))
    ELSE Raise("ValueError")           \* "Not Expected App Structure"

\* line 68: props.get("children", None)
ChildrenOf(props) ==
    IF "children" \in Keys(props) THEN Get(props, "children") ELSE None

\* line 84: props.get("id", "")
IdOf(props) == IF "id" \in Keys(props) THEN Get(props, "id") ELSE Str(<<>>)

\* lines 68-82: the children ch of an item's props
ItemChildren(props, ch, kwargs) ==
    IF Truthy(ch) /\ Tag(ch) = "dict"
    THEN Assign(props, "children", UpdateDictChild(ch, kwargs))
    ELSE IF Truthy(ch) /\ Tag(ch) = "list"
    THEN Assign(props, "children", update_component_state(ch, kwargs))
    ELSE props

\* lines 84-92; p is the props after lines 68-82, or what they raised
ItemOwn(p, id, kwargs) ==
    IF IsRaise(p) THEN p ELSE MergeOwnPatch(p, id, kwargs)

\* lines 67-92: one item of a list
UpdateItem(item, kwargs) ==
    IF Tag(item) # "dict" THEN Raise("TypeError")        \* item["props"]
    ELSE IF "props" \notin Keys(item) THEN Raise("KeyError")
    ELSE IF Tag(Get(item, "props")) # "dict" THEN Raise("AttributeError")
    ELSE Assign(item, "props",
                ItemOwn(ItemChildren(Get(item, "props"),
                                     ChildrenOf(Get(item, "props")), kwargs),
                        IdOf(Get(item, "props")), kwargs))

\* the items already updated, h, before the updated rest of the list
Before(h, rest) == IF IsRaise(rest) THEN rest ELSE List(<<h>> \o Val(rest))

\* lines 66-94: layout is a list; the first item that raises ends the loop
RECURSIVE UpdateItems(_, _)
AfterItem(h, items, kwargs) ==
    IF IsRaise(h) THEN h ELSE Before(h, UpdateItems(Tail(items), kwargs))

UpdateItems(items, kwargs) ==
    IF Len(items) = 0 THEN List(<<>>)
    ELSE AfterItem(UpdateItem(Head(items), kwargs), items, kwargs)

update_component_state(layout, kwargs) ==
    IF DOMAIN kwargs = {} THEN layout                              \* 43-44
    ELSE IF Tag(layout) = "dict" THEN UpdateDict(layout, kwargs)   \* 49-61
    ELSE IF Tag(layout) \in {"str", "none"} THEN layout            \* 63-64
    ELSE IF Tag(layout) = "list" THEN UpdateItems(Val(layout), kwargs)
    ELSE Raise("TypeError")               \* for item in <number>: line 66

-----------------------------------------------------------------------------
(* DashShare.encode: shake_128 of json.dumps(state), cut to n/2 = 4 bytes  *)
(* and written as hex.  The digest is modelled by a deterministic          *)
(* many-to-one function of the serialised tree; the 2^32 digests of the    *)
(* code are the HashSpace digests of the model, so that two trees can      *)
(* collide.                                                                *)

HashSpace == 2

\* the hexdigest of digest i - 1, one token each
HexTokens == <<"00", "01", "02", "03", "04", "05", "06", "07">>

TokenCode(tok) ==
    CASE tok = "00" -> 11 [] tok = "01" -> 12 [] tok = "02" -> 13
      [] tok = "03" -> 14 [] tok = "04" -> 15 [] tok = "05" -> 16
      [] tok = "06" -> 17 [] tok = "07" -> 18
      [] tok = "https" -> 5
      [] tok = "dash" -> 7
      [] OTHER -> 1

RECURSIVE TokenSum(_)
TokenSum(s) ==
    IF Len(s) = 0 THEN 0 ELSE (TokenCode(Head(s)) + (31 * TokenSum(Tail(s)))) % 9973

\* the digest of a prop's value
PropDigest(v) ==
    CASE Tag(v) = "absent" -> 0
      [] Tag(v) = "none" -> 1
      [] Tag(v) = "bool" -> IF Val(v) THEN 3 ELSE 2
      [] Tag(v) = "num" -> (5 + Val(v)) % 9973
      [] Tag(v) = "str" -> (7 + TokenSum(Val(v))) % 9973

\* two serialised layouts differ in the props that change only
Mix(a, b) == (a + (31 * b)) % 9973

Digest(state) ==
    Mix(PropDigest(state.disabled),
        Mix(PropDigest(state.n_intervals),
            Mix(PropDigest(state.is_open), PropDigest(state.value))))

\* lines 327-339
encode(state) == <<HexTokens[(Digest(state) % HashSpace) + 1]>>

-----------------------------------------------------------------------------
(* DashShare.parse_query_string and DashShare.get_url_base, on token       *)
(* sequences: "?", "&", "=", "://", "/" and "#" are tokens of their own.   *)

\* the index of the first token of s, from i on, that is in D, or Len(s) + 1
RECURSIVE FirstFrom(_, _, _)
FirstFrom(s, D, i) ==
    IF i > Len(s) \/ s[i] \in D THEN i ELSE FirstFrom(s, D, i + 1)

FirstIn(s, D) == FirstFrom(s, D, 1)

\* str.split("&"); i is the index of the first "&"
RECURSIVE SplitAmp(_)
SplitAt(s, i) ==
    IF i > Len(s) THEN <<s>>
    ELSE <<SubSeq(s, 1, i - 1)>> \o SplitAmp(SubSeq(s, i + 1, Len(s)))

SplitAmp(s) == SplitAt(s, FirstIn(s, {"&"}))

\* urllib.parse.parse_qs: name=value pairs; a pair without "=" or with a
\* blank value is dropped
HasValue(p) == FirstIn(p, {"="}) < Len(p)

PairAt(p, i) ==
    [name |-> SubSeq(p, 1, i - 1), value |-> SubSeq(p, i + 1, Len(p))]

PairsOf(kept) == [i \in 1..Len(kept) |-> PairAt(kept[i], FirstIn(kept[i], {"="}))]

QueryPairs(s) == PairsOf(SelectSeq(SplitAmp(s), HasValue))

\* value[0] of each key: the value of the first pair with the name
FirstValue(ps, k) ==
    ps[CHOOSE i \in 1..Len(ps) :
           ps[i].name = k /\ \A j \in 1..(i - 1) : ps[j].name # k].value

FirstValues(ps) == [k \in {ps[i].name : i \in 1..Len(ps)} |-> FirstValue(ps, k)]

\* lines 357-370: qs.replace("?", ""), parse_qs, the first value of each key
parse_query_string(qs) ==
    FirstValues(QueryPairs(SelectSeq(qs, LAMBDA t : t # "?")))

\* urlparse(url): i is the index of "://", the scheme is before it and the
\* netloc runs from it to the first "/", "?" or "#"
Scheme(url, i) == IF i > Len(url) THEN <<>> ELSE SubSeq(url, 1, i - 1)

AfterScheme(url, i) == IF i > Len(url) THEN <<>> ELSE SubSeq(url, i + 1, Len(url))

Netloc(rest) == SubSeq(rest, 1, FirstIn(rest, {"/", "?", "#"}) - 1)

UrlBase(url, i, end) ==
    Scheme(url, i) \o <<"://">> \o Netloc(AfterScheme(url, i)) \o end

\* lines 341-355: urlparse(url).scheme and .netloc, and "/dash" on a server
get_url_base(url, env) ==
    UrlBase(url, FirstIn(url, {"://"}),
            IF Tag(env) = "none" \/ ~Truthy(env) THEN <<>> ELSE <<"/", "dash">>)

-----------------------------------------------------------------------------
(* The layout: DashShare.update_layout puts the application's layout and   *)
(* the tracker components (the timer, the share dialog with the link       *)
(* textbox) under the layout_id container, so all of them are part of the  *)
(* state that is hashed, stored and loaded.  The callbacks change four     *)
(* props of it; a layout is held as the record of these four               *)
(* [disabled, n_intervals, is_open, value], LayoutOf gives its JSON tree   *)
(* and PropsFrom reads the record back from a tree.  Style props are left  *)
(* out, and so are the components of the application that the callbacks of *)
(* DashShare do not write (its dropdown, button and graph).                *)

interval_id == <<"update", "-", "timer">>
modal_id == <<"save", "-", "modal">>
link_id == <<"url", "-", "link">>
interval_delay == 2000
max_intervals == 1

Component(type, namespace, props) ==
    Dict([props |-> Dict(props), type |-> Str(<<type>>),
          namespace |-> Str(<<namespace>>)])

\* a prop that may be missing
Opt(k, v) == IF Tag(v) = "absent" THEN <<>> ELSE (k :> v)

\* the application of examples/file_share.py, cut to its title
UserLayout ==
    Component("Container", "dbc",
        [children |-> List(<<
            Component("H1", "html",
                      [id |-> Str(<<"title">>),
                       children |-> Str(<<"Title of Dash App">>)]) >>),
         fluid |-> Bool(TRUE)])

_make_state_tracker_components(disabled, n_intervals, is_open, value) ==
    << Component("Interval", "dcc",
           [id |-> Str(interval_id), interval |-> Num(interval_delay),
            disabled |-> disabled, max_intervals |-> Num(max_intervals)]
           @@ Opt("n_intervals", n_intervals)),
       Component("Modal", "dbc",
           [children |-> List(<<
                Component("ModalHeader", "dbc", <<>>),
                Component("ModalBody", "dbc",
                    [children |-> Component("Markdown", "dcc",
                        [children |-> Str(<<"Copy link below to share data">>)])]),
                Component("Div", "html",
                    [children |-> List(<<
                        Component("Textarea", "dcc",
                            [id |-> Str(link_id), value |-> value]),
                        Component("Clipboard", "dcc",
                            [target_id |-> Str(link_id),
                             title |-> Str(<<"Copy URL">>)]) >>)]) >>),
            id |-> Str(modal_id), is_open |-> is_open,
            size |-> Str(<<"md">>), centered |-> Bool(TRUE),
            scrollable |-> Bool(TRUE)]) >>

\* lines 213-227
update_layout(layout, disabled, n_intervals, is_open, value) ==
    List(<<layout>>
         \o _make_state_tracker_components(disabled, n_intervals, is_open, value))

LayoutOf(c) ==
    update_layout(UserLayout, c.disabled, c.n_intervals, c.is_open, c.value)

\* the layout the application starts with
InitialChildren ==
    [disabled |-> Bool(TRUE), n_intervals |-> Absent,
     is_open |-> Bool(FALSE), value |-> Str(<<>>)]

\* the props of the components of a tree that have the id
RECURSIVE PropsOf(_, _)
PropsIn(p, id) ==
    (IF "id" \in Keys(p) /\ Get(p, "id") = Str(id) THEN {p} ELSE {})
    \cup (IF "children" \in Keys(p) THEN PropsOf(Get(p, "children"), id) ELSE {})

PropsOf(node, id) ==
    CASE Tag(node) = "list" ->
           UNION {PropsOf(Val(node)[i], id) : i \in 1..Len(Val(node))}
      [] Tag(node) = "dict" /\ "props" \in Keys(node) ->
           PropsIn(Get(node, "props"), id)
      [] OTHER -> {}

PropIn(S, prop) ==
    IF S = {} THEN Absent
    ELSE IF prop \in Keys(CHOOSE x \in S : TRUE)
    THEN Get(CHOOSE x \in S : TRUE, prop)
    ELSE Absent

PropOf(tree, id, prop) == PropIn(PropsOf(tree, id), prop)

PropsFrom(tree) ==
    [disabled |-> PropOf(tree, interval_id, "disabled"),
     n_intervals |-> PropOf(tree, interval_id, "n_intervals"),
     is_open |-> PropOf(tree, modal_id, "is_open"),
     value |-> PropOf(tree, link_id, "value")]

\* the n_intervals a timer counts from: 0 when the prop is not set
Count(n) == IF Tag(n) = "num" THEN Val(n) ELSE 0

-----------------------------------------------------------------------------
(* FileShare: the persistence adapter.  A file ./share/<hash>.json is a    *)
(* record [hash, content]; json.dump followed by json.load gives back the  *)
(* layout that was written.                                                *)

Field == <<"Field", <<>>>>     \* the dataclasses.Field left as class attribute

Exists(files, hash) == \E r \in files : r.hash = hash

\* open(path, "w") and json.dump: the file is created or overwritten
WriteFile(files, hash, content) ==
    {r \in files : r.hash # hash} \cup {[hash |-> hash, content |-> content]}

ReadFile(files, hash) == (CHOOSE r \in files : r.hash = hash).content

\* update_component_state on a layout, whose result is t: [err |-> the
\* exception or None, state |-> the layout returned]
PatchResult(state, t) ==
    IF IsRaise(t) THEN [err |-> t, state |-> state]
    ELSE [err |-> None, state |-> PropsFrom(t)]

Patched(state, kwargs) ==
    PatchResult(state, update_component_state(LayoutOf(state), kwargs))

\* lines 395-403, q the parsed query string
LoadState(q, state, files) ==
    IF <<"state">> \in DOMAIN q
    THEN IF Exists(files, q[<<"state">>])
         THEN Patched(ReadFile(files, q[<<"state">>]),
                      modal_id :> [is_open |-> Bool(FALSE)])
         ELSE [err |-> None, state |-> state]  \* except FileNotFoundError
    ELSE [err |-> None, state |-> state]

\* variant: load without the except FileNotFoundError of lines 400-401
FileShare_load_strict(input, state, files) ==
    IF <<"state">> \in DOMAIN parse_query_string(Val(input))
       /\ ~Exists(files, parse_query_string(Val(input))[<<"state">>])
    THEN [err |-> Raise("FileNotFoundError"), state |-> state]
    ELSE LoadState(parse_query_string(Val(input)), state, files)

\* lines 383-403: [err |-> the exception or None, state |-> what load returns]
FileShare_load(input, state, files) ==
    LoadState(parse_query_string(Val(input)), state, files)

\* variant: save without the patch of lines 422-425
StateToWrite_unpatched(state, uc) == [err |-> None, state |-> state]

\* lines 422-425: the state that is written; ** of a Field is a TypeError
StateToWrite(state, uc) ==
    IF Truthy(uc)
    THEN IF Tag(uc) # "dict" THEN [err |-> Raise("TypeError"), state |-> state]
         ELSE Patched(state, Val(uc))
    ELSE [err |-> None, state |-> state]

\* lines 426-428, w the state to write
Written(input, hash, w, files) ==
    IF IsRaise(w.err) THEN [ret |-> w.err, files |-> files]
    ELSE [ret |-> input, files |-> WriteFile(files, hash, w.state)]

\* variant: save without the os.path.exists test of lines 416-417, as
\* FileShare2.save of examples/file_share.py
FileShare_save_overwrite(input, state, hash, uc, files) ==
    IF Tag(input) # "none" /\ Val(input) > 0
    THEN Written(input, hash, StateToWrite(state, uc), files)
    ELSE [ret |-> input, files |-> files]

\* lines 405-428: [ret |-> what save returns or raises, files |-> the files]
FileShare_save(input, state, hash, uc, files) ==
    IF Exists(files, hash) THEN [ret |-> input, files |-> files]
    ELSE IF Tag(input) # "none" /\ Val(input) > 0
    THEN Written(input, hash, StateToWrite(state, uc), files)
    ELSE [ret |-> input, files |-> files]

-----------------------------------------------------------------------------
(* DashShare: the callbacks of register_callbacks.  Each handler is a      *)
(* function of its inputs; the action that runs it writes its outputs into *)
(* the layout, as Dash does, and leaves them alone when it returns         *)
(* no_update or raises.                                                    *)

\* variant: a decorator that never pauses
pause_update_off(is_locked, func) == func

\* lines 229-242: the decorator; func is what the wrapped callback would do
pause_update(is_locked, func) ==
    IF is_locked
    THEN [ran |-> FALSE, ret |-> no_update, files |-> store]
    ELSE func

\* lines 277-282
enable_interval_and_lock(trigger) ==
    IF Truthy(trigger)
    THEN [locked |-> TRUE, ret |-> List(<<Bool(FALSE), Num(0)>>)]
    ELSE [locked |-> FALSE, ret |-> List(<<Bool(FALSE), Num(0)>>)]

\* variant: the timer callback without self.unlock() of line 292
unlock_keeps_lock(n, is_locked) ==
    IF Tag(n) # "none" /\ Val(n) > 0
    THEN [locked |-> is_locked, ret |-> List(<<Bool(TRUE), Num(1)>>)]
    ELSE [locked |-> is_locked, ret |-> List(<<Bool(FALSE), Num(0)>>)]

\* lines 290-294
unlock_after_interval_trigger(n, is_locked) ==
    IF Tag(n) # "none" /\ Val(n) > 0
    THEN [locked |-> FALSE, ret |-> List(<<Bool(TRUE), Num(1)>>)]
    ELSE [locked |-> is_locked, ret |-> List(<<Bool(FALSE), Num(0)>>)]

\* line 314
ShareLink(url, env, hash) ==
    Str(get_url_base(url, env) \o <<"/", "?", "state", "=">> \o hash)

\* variant: the save callback without the test of input of line 310
SaveReturn_always(input, is_open, url, env, hashed_url, o) ==
    IF IsRaise(o.ret) THEN [ran |-> TRUE, ret |-> o.ret, files |-> o.files]
    ELSE [ran |-> TRUE, files |-> o.files,
          ret |-> List(<<o.ret, Bool(~Truthy(is_open)),
                         ShareLink(url, env, hashed_url)>>)]

\* lines 310-316, o what self.save did
SaveReturn(input, is_open, url, env, hashed_url, o) ==
    IF IsRaise(o.ret) THEN [ran |-> TRUE, ret |-> o.ret, files |-> o.files]
    ELSE IF Truthy(input)
    THEN [ran |-> TRUE, files |-> o.files,
          ret |-> List(<<o.ret, Bool(~Truthy(is_open)),
                         ShareLink(url, env, hashed_url)>>)]
    ELSE [ran |-> TRUE, files |-> o.files,
          ret |-> List(<<o.ret, is_open, Str(<<>>)>>)]

\* lines 308-316
SaveHashed(input, state, is_open, url, uc, env, files, hashed_url) ==
    SaveReturn(input, is_open, url, env, hashed_url,
               FileShare_save(input, state, hashed_url, uc, files))

\* lines 306-316, the wrapped save callback
save_callback(input, state, is_open, url, uc, env, files) ==
    SaveHashed(input, state, is_open, url, uc, env, files, encode(state))

\* examples/file_share.py, lines 97-105: a callback of the application
update_graph(value) ==
    [ran |-> TRUE, files |-> store, ret |-> Dict([data |-> Str(<<value>>)])]

-----------------------------------------------------------------------------
(* The inputs the callbacks are run with *)

MaxClicks == 1
MaxRecords == 2

Searches ==
    {<<>>, <<"?", "tab", "=", "a">>}
    \cup {<<"?", "state", "=", HexTokens[i]>> : i \in 1..HashSpace}

\* an empty and a non-empty query string
Triggers == {<<>>, <<"?", "state", "=", "00">>}

SaveInputs == {None, Num(-1)} \cup {Num(i) : i \in 0..MaxClicks}

Hrefs ==
    { <<"https", "://", "example.org", "/", "dash", "/", "?", "state", "=", "00">> }

Countries == {"Canada"}

UpdateComponentsChoices ==
    { Field,
      <<"dict", <<>>>>,
      <<"dict", ReplaceDash(link_id) :> [value |-> Str(<<>>)]>> }

Environments == {None, Str(<<"1">>)}

NoCall ==
    [cb |-> "none", arg |-> None, ran |-> FALSE, ret |-> None, existed |-> FALSE]

Init ==
    /\ locked = FALSE                                    \* __post_init__
    /\ children = InitialChildren
    /\ store = {}
    /\ update_components \in UpdateComponentsChoices
    /\ on_server \in Environments
    /\ interval_changed = FALSE
    /\ window = "none"
    /\ last = NoCall
    /\ arg_layout = None
    /\ arg_kwargs = <<>>
    /\ updated = None

\* Dash writes the outputs <<disabled, n_intervals>> of a timer callback
TimerOutputs(cb, arg, r) ==
    /\ locked' = r.locked
    /\ children' = [children EXCEPT !.disabled = Val(r.ret)[1],
                                    !.n_intervals = Val(r.ret)[2]]
    /\ last' = [cb |-> cb, arg |-> arg, ran |-> TRUE, ret |-> r.ret,
                existed |-> FALSE]

\* the load input changes: lines 269-282
EnableIntervalAndLock ==
    \E s \in Triggers :
        /\ TimerOutputs("enable_interval_and_lock", Str(s),
                        enable_interval_and_lock(Str(s)))
        /\ interval_changed' = TRUE
        /\ window' = IF Truthy(Str(s)) THEN "open"
                     ELSE IF window = "open" THEN "interrupted"
                     ELSE window
        /\ UNCHANGED <<store, update_components, on_server, call_vars>>

\* the timer fires: the browser counts n_intervals up and lines 284-294 run
IntervalFires ==
    /\ ~Truthy(children.disabled)
    /\ Count(children.n_intervals) < max_intervals
    /\ TimerOutputs("unlock_after_interval_trigger",
                    Num(Count(children.n_intervals) + 1),
                    unlock_after_interval_trigger(
                        Num(Count(children.n_intervals) + 1), locked))
    /\ window' = IF locked THEN "closed"
                 ELSE IF window = "interrupted" THEN "none"
                 ELSE window
    /\ interval_changed' = FALSE
    /\ UNCHANGED <<store, update_components, on_server, call_vars>>

\* n_intervals = 0 was written by enable_interval_and_lock: lines 284-294 run
IntervalChanged ==
    /\ interval_changed
    /\ TimerOutputs("unlock_after_interval_trigger", Num(0),
                    unlock_after_interval_trigger(Num(0), locked))
    /\ interval_changed' = FALSE
    /\ UNCHANGED <<store, update_components, on_server, window, call_vars>>

\* Dash writes the outputs <<n_clicks, is_open, value>> of the save callback,
\* r, unless it returned no_update or raised
SaveOutputs(input, existed, r) ==
    /\ Cardinality(r.files) <= MaxRecords
    /\ store' = r.files
    /\ children' = IF Tag(r.ret) = "list"
                   THEN [children EXCEPT !.is_open = Val(r.ret)[2],
                                         !.value = Val(r.ret)[3]]
                   ELSE children
    /\ last' = [cb |-> "save", arg |-> input, ran |-> r.ran, ret |-> r.ret,
                existed |-> r.ran /\ existed]

\* the save input changes: lines 296-316
Save ==
    \E input \in SaveInputs, url \in Hrefs :
        /\ SaveOutputs(input, Exists(store, encode(children)),
               pause_update(locked,
                   save_callback(input, children, children.is_open, url,
                                 update_components, on_server, store)))
        /\ UNCHANGED <<locked, update_components, on_server,
                       interval_changed, window, call_vars>>

\* Dash writes the output children of the load callback, r, unless it raised
LoadOutputs(input, r) ==
    /\ children' = IF IsRaise(r.err) THEN children ELSE r.state
    /\ last' = [cb |-> "load", arg |-> input, ran |-> TRUE, ret |-> r.err,
                existed |-> FALSE]

\* the load input changes: lines 318-325
Load ==
    \E s \in Searches :
        /\ LoadOutputs(Str(s), FileShare_load(Str(s), children, store))
        /\ UNCHANGED <<locked, store, update_components, on_server,
                       interval_changed, window, call_vars>>

\* the output of a callback of the application (the figure of the graph) is
\* not part of the layout record
GraphOutputs(arg, r) ==
    last' = [cb |-> "update_graph", arg |-> arg, ran |-> r.ran, ret |-> r.ret,
             existed |-> FALSE]

\* a paused callback of the application runs
UpdateGraph ==
    \E c \in Countries :
        /\ GraphOutputs(Str(<<c>>), pause_update(locked, update_graph(c)))
        /\ UNCHANGED <<locked, children, store, update_components, on_server,
                       interval_changed, window, call_vars>>

Next ==
    \/ EnableIntervalAndLock
    \/ IntervalFires
    \/ IntervalChanged
    \/ Save
    \/ Load
    \/ UpdateGraph

Spec == Init /\ [][Next]_vars

\* the browser's timer: while the Interval is enabled and has fires left
\* (n_intervals < max_intervals) it fires, interval_delay ms later
SpecFair == Spec /\ WF_vars(IntervalFires)

-----------------------------------------------------------------------------
(* update_component_state on its own: the layouts and patch sets it is     *)
(* called with, and the call.                                              *)

MaxDepth == 2

PatchIds == {<<"a", "-", "b">>, <<"a", "_", "b">>, <<"c">>}

Element(id, ch) ==
    Component("Div", "html", Opt("id", id) @@ Opt("children", ch))

Leaves == {Str(<<"x">>), None, Num(5)}

\* the elements of nesting depth d or less: no child, a leaf, one element,
\* a list of elements, a list of a leaf and an element
RECURSIVE Elements(_)
Elements(d) ==
    IF d = 0
    THEN {Element(id, ch) :
            id \in {Absent} \cup {Str(i) : i \in {<<"a", "-", "b">>, <<"c">>}},
            ch \in {Absent, Str(<<"x">>)}}
    ELSE LET below == Elements(d - 1)
             top == {e \in below : "id" \in Keys(Get(e, "props"))}
         IN  below
             \cup {Element(Str(<<"c">>), ch) :
                     ch \in below \cup {List(<<e>>) : e \in below}
                           \cup {List(<<l, e>>) : l \in Leaves, e \in top}}
             \cup {Element(id, List(<<e, Element(Str(<<"c">>), Absent)>>)) :
                     id \in {Absent, Str(<<"a", "_", "b">>)}, e \in top}
             \cup {Element(Absent, Element(Absent, l)) : l \in Leaves}

Layouts ==
    {List(<<e>>) : e \in Elements(MaxDepth)} \cup Elements(1) \cup Leaves

PatchSets ==
    { <<>>,
      <<"a", "_", "b">> :> [v |-> Num(1)],
      <<"c">> :> [w |-> Num(1)],
      (<<"a", "_", "b">> :> [v |-> Num(1)]) @@ (<<"c">> :> [w |-> Num(2)]),
      <<"a", "-", "b">> :> [v |-> Num(1)] }

Pending == <<"pending", <<>>>>

InitPatch ==
    /\ locked = FALSE
    /\ children = InitialChildren
    /\ store = {}
    /\ update_components = Field
    /\ on_server = None
    /\ interval_changed = FALSE
    /\ window = "none"
    /\ last = NoCall
    /\ arg_layout \in Layouts
    /\ arg_kwargs \in PatchSets
    /\ updated = Pending

\* lines 17-94
Call ==
    /\ updated = Pending
    /\ updated' = update_component_state(arg_layout, arg_kwargs)
    /\ UNCHANGED <<app_vars, arg_layout, arg_kwargs>>

NextPatch == Call

SpecPatch == InitPatch /\ [][NextPatch]_vars

-----------------------------------------------------------------------------
(* The claims *)

\* what C3 says update_component_state returns: the same tree, each element
\* (a dict with props) whose normalised id is a key of the patch set with
\* its patch merged into its props, everything else as it was
RECURSIVE Rewritten(_, _)
Rewritten(node, P) ==
    CASE Tag(node) = "list" ->
           List([i \in 1..Len(Val(node)) |-> Rewritten(Val(node)[i], P)])
      [] Tag(node) = "dict" /\ "props" \in Keys(node) ->
           LET p == Get(node, "props")
               p1 == IF "children" \in Keys(p)
                     THEN Put(p, "children", Rewritten(Get(p, "children"), P))
                     ELSE p
               p2 == IF "id" \in Keys(p) /\ ReplaceDash(Val(Get(p, "id"))) \in DOMAIN P
                     THEN Update(p1, P[ReplaceDash(Val(Get(p, "id")))])
                     ELSE p1
           IN  Put(node, "props", p2)
      [] OTHER -> node

\* C3 (targeted patch): for every layout tree and non-empty patch set,
\* update_component_state returns the tree with the same shape and order in
\* which exactly the elements whose normalised id is a key are patched
C3_TargetedPatch ==
    (updated # Pending /\ DOMAIN arg_kwargs # {})
        => updated = Rewritten(arg_layout, arg_kwargs)

\* the callbacks that pause_update wraps
PausedCallbacks == {"save", "update_graph"}

\* a paused callback did not run and returned the no-op sentinel
Paused == ~last.ran /\ last.ret = no_update

\* a truthy reload trigger locks and arms the timer
LocksAndArms ==
    (last.cb = "enable_interval_and_lock" /\ Truthy(last.arg))
        => /\ locked
           /\ children.disabled = Bool(FALSE)
           /\ children.n_intervals = Num(0)

\* C1 (lock window), as the claim states it: a truthy reload trigger locks
\* and arms the timer, and a paused callback that runs between it and the
\* firing of the timer returns no_update without running, whatever reload
\* triggers, truthy or falsy, come in between
C1_LockWindow ==
    /\ LocksAndArms
    /\ (window \in {"open", "interrupted"} /\ last.cb \in PausedCallbacks)
           => Paused

\* C1 (lock window), amended: the same, as long as no falsy reload trigger
\* came after the truthy one; a falsy reload trigger unlocks at once
C1_LockWindowUntilFalsyReload ==
    /\ LocksAndArms
    /\ window = "open" => locked
    /\ (window = "open" /\ last.cb \in PausedCallbacks) => Paused

C1_Witness ==
    /\ window = "open"
    /\ last.cb = "save" /\ Truthy(last.arg)
    /\ Paused

\* C2 (save idempotence and record immutability): a step keeps every record
\* of the store as it is, the store has one record per fingerprint at most,
\* and a save that finds the fingerprint stored does not raise and leaves
\* the store alone
C2_SaveIdempotent ==
    [][ /\ \A r \in store : r \in store'
        /\ \A r1, r2 \in store' : r1.hash = r2.hash => r1 = r2
        /\ (last'.cb = "save" /\ last'.existed)
               => (~IsRaise(last'.ret) /\ store' = store) ]_vars

C2_Witness ==
    /\ last.cb = "save" /\ last.existed
    /\ Tag(last.arg) = "num" /\ Val(last.arg) > 0
    /\ Tag(last.ret) = "list"

\* the query string names a fingerprint that has a record in the store
Found(input, files) ==
    /\ <<"state">> \in DOMAIN parse_query_string(Val(input))
    /\ Exists(files, parse_query_string(Val(input))[<<"state">>])

\* C4 (load patches the transient flag): a load that finds the record
\* returns a layout whose share dialog has is_open = False
C4_LoadClosesModal ==
    (last.cb = "load" /\ Found(last.arg, store))
        => (last.ret = None /\ children.is_open = Bool(FALSE))

\* C5 (unlock on timer): the timer firing with a count above 0 while locked
\* unlocks and disables the timer, and from then on, until the next truthy
\* reload trigger, the state is unlocked and a paused callback runs and
\* returns what the wrapped callback returns
C5_UnlockOnTimer ==
    [][ /\ ( /\ last'.cb = "unlock_after_interval_trigger"
             /\ Val(last'.arg) > 0
             /\ locked )
               => /\ ~locked'
                  /\ children'.disabled = Bool(TRUE)
                  /\ window' = "closed"
        /\ window' = "closed" => ~locked'
        /\ (window = "closed" /\ last'.cb = "update_graph")
               => (last'.ran /\ last'.ret = Dict([data |-> last'.arg]))
        /\ (window = "closed" /\ last'.cb = "save")
               => /\ last'.ran
                  /\ \E url \in Hrefs :
                       last'.ret =
                         save_callback(last'.arg, children, children.is_open,
                                       url, update_components, on_server,
                                       store).ret ]_vars

C5_Witness ==
    /\ window = "closed"
    /\ last.cb = "save" /\ Truthy(last.arg)
    /\ last.ran /\ Tag(last.ret) = "list"

\* the link the claims speak of: <scheme>://<host>[/dash]/?state=<hash>
LinkTo(url, hash) ==
    Str(get_url_base(url, on_server) \o <<"/", "?", "state", "=">> \o hash)

\* C6 (save with a truthy input opens the dialog): after such a save ran,
\* the dialog is open, whatever it was before, and the textbox holds the
\* link to the fingerprint of the layout the save was called with
C6_SaveOpensDialog ==
    [][ (last'.cb = "save" /\ last'.ran /\ Truthy(last'.arg))
            => /\ children'.is_open = Bool(TRUE)
               /\ \E url \in Hrefs :
                    children'.value = LinkTo(url, encode(children)) ]_vars

\* C7 (load fallback): a load whose query string has no state key, or names
\* a fingerprint that has no record, raises nothing and leaves the layout,
\* the store and the lock as they are
C7_LoadFallback ==
    [][ (last'.cb = "load" /\ ~Found(last'.arg, store))
            => /\ last'.ret = None
               /\ children' = children
               /\ store' = store
               /\ locked' = locked ]_vars

C7_Witness ==
    /\ last.cb = "load" /\ last.ret = None
    /\ <<"state">> \in DOMAIN parse_query_string(Val(last.arg))
    /\ store # {}
    /\ ~Found(last.arg, store)

C9_ContentAddressed == \A r \in store : encode(r.content) = r.hash

\* the layout with the patch of update_components applied
PatchedBy(state, uc) ==
    IF Tag(uc) = "dict" /\ ReplaceDash(link_id) \in DOMAIN Val(uc)
    THEN [state EXCEPT !.value = Val(uc)[ReplaceDash(link_id)].value]
    ELSE state

\* C9 (hash-then-patch), amended: a save that writes, writes one record,
\* under the fingerprint of the layout before the patch, and its content is
\* the layout after the patch
C9_HashBeforePatch ==
    [][ (last'.cb = "save" /\ store' # store)
            => store' = store \cup
                   {[hash |-> encode(children),
                     content |-> PatchedBy(children, update_components)]} ]_vars

C9_Witness ==
    /\ last.cb = "save" /\ last.ran /\ ~last.existed
    /\ Tag(last.arg) = "num" /\ Val(last.arg) > 0
    /\ \E r \in store :
         /\ r.content.value = Str(<<>>)
         /\ encode(r.content) # r.hash

\* C10 (no dangling share link): a link in the textbox names a fingerprint
\* that has a record in the store
C10_NoDanglingLink ==
    (Tag(children.value) = "str" /\ Len(Val(children.value)) > 0)
        => Exists(store, <<Val(children.value)[Len(Val(children.value))]>>)

\* the timer is enabled and has a fire left
Armed ==
    /\ ~Truthy(children.disabled)
    /\ Count(children.n_intervals) < max_intervals

\* C11 (the lock is always released): with the timer firing whenever it
\* stays enabled with fires left, a locked state is always followed by an
\* unlocked one, and whenever the state is locked the timer is enabled with
\* its count below max_intervals
C11_LockReleased ==
    /\ [](locked => Armed)
    /\ locked ~> ~locked

====
